---- MODULE Spec2Model ----
(***************************************************************************)
(* A model of the fort.10 readers of the GOLP plotting scripts:            *)
(*   - the query layer (pick_block / frame choice in main),                *)
(*   - the format detector (is_block_ascii_head),                          *)
(*   - the block-ASCII reader (parse_block_ascii),                         *)
(*   - the classic header decoder (_read_section_header and helpers),      *)
(*   - the classic reader (read_classic_fort10),                           *)
(*   - the trace plot of script.py (plot_trace),                           *)
(*   - the length unit factor (unit_factor_to_um),                         *)
(*   - the boxcar filter (boxcar),                                         *)
(*   - the variable grouping of script.py (read_section_header and the     *)
(*     offsets of read_fort10),                                            *)
(*   - the step-filtered fort.11 readers (plotter_overlay.py, plotter.py   *)
(*     and the MaxwellSolver script).                                      *)
(* Each component has its own specification (SpecSelect, SpecDetect,       *)
(* SpecBlocks, SpecHeader, SpecClassic, SpecTrace, SpecUnits, SpecBoxcar,  *)
(* SpecGroups, SpecStep); a component's variables stay at their idle       *)
(* value under the other specifications.                                   *)
(*                                                                         *)
(* Numbers: times are integers in femtoseconds (1e-15 s), the --time_ps    *)
(* argument is an integer number of tenths of a picosecond, so the         *)
(* conversion time_ps * 1e-12 is the multiplication by 100.  Floating      *)
(* point rounding is not modelled.                                         *)
(***************************************************************************)
EXTENDS Integers, Sequences, FiniteSets, TLC

VARIABLES
    \* query layer
    times, frame, time_ps, sel,
    \* format detector
    sample, det,
    \* block-ASCII reader
    stream, bpos, cur, blocks, bout,
    \* classic dialect: the line source
    file, pos,
    \* classic header decoder
    hpc, hdr, walk, hres,
    \* classic reader
    cpc, dyn, data, loop, cres,
    \* trace plot
    tpc, tdyn, tcell, tres,
    \* unit factor
    xunit, xvals, ures,
    \* boxcar filter
    by, bk, bres,
    \* variable grouping of script.py
    gnames, gpc, grp,
    \* step-filtered fort.11 readers
    fstream, fpos, fvar, fst

vars == <<times, frame, time_ps, sel, sample, det,
          stream, bpos, cur, blocks, bout,
          file, pos, hpc, hdr, walk, hres,
          cpc, dyn, data, loop, cres,
          tpc, tdyn, tcell, tres, xunit, xvals, ures, by, bk, bres,
          gnames, gpc, grp, fstream, fpos, fvar, fst>>

selVars == <<times, frame, time_ps, sel>>
detVars == <<sample, det>>
blkVars == <<stream, bpos, cur, blocks, bout>>

\* The variables of the other components, which a component's actions
\* leave alone.
srcVars == <<file, pos>>
hdrVars == <<hpc, hdr, walk, hres>>

clsVars == <<cpc, dyn, data, loop, cres>>
trcVars == <<tpc, tdyn, tcell, tres>>
untVars == <<xunit, xvals, ures>>
boxVars == <<by, bk, bres>>
qryVars == <<trcVars, untVars, boxVars>>
grpVars == <<gnames, gpc, grp>>
stpVars == <<fstream, fpos, fvar, fst>>
extVars == <<grpVars, stpVars>>

notSel == <<detVars, blkVars, srcVars, hdrVars, clsVars, qryVars, extVars>>
notDet == <<selVars, blkVars, srcVars, hdrVars, clsVars, qryVars, extVars>>
notBlk == <<selVars, detVars, srcVars, hdrVars, clsVars, qryVars, extVars>>
notHdr == <<selVars, detVars, blkVars, clsVars, qryVars, extVars>>
notCls == <<selVars, detVars, blkVars, hdrVars, qryVars, extVars>>
notTrc ==
    <<selVars, detVars, blkVars, srcVars, hdrVars, clsVars, untVars, boxVars,
      extVars>>
notUnt ==
    <<selVars, detVars, blkVars, srcVars, hdrVars, clsVars, trcVars, boxVars,
      extVars>>
notBox ==
    <<selVars, detVars, blkVars, srcVars, hdrVars, clsVars, trcVars, untVars,
      extVars>>

coreVars == <<selVars, detVars, blkVars, srcVars, hdrVars, clsVars, qryVars>>
notGrp == <<coreVars, stpVars>>
notStp == <<coreVars, grpVars>>

(***************************************************************************)
(* Generic helpers                                                         *)
(***************************************************************************)
\* All sequences over S of length lo..hi.
SeqsOf(S, lo, hi) == UNION {[1..k -> S] : k \in lo..hi}

Abs(x) == IF x < 0 THEN -x ELSE x

\* An optional argument (argparse leaves an option that is not given at None).
None == [given |-> FALSE, v |-> 0]
Some(x) == [given |-> TRUE, v |-> x]

(***************************************************************************)
(* Query layer: pick_block and the frame choice of main                    *)
(***************************************************************************)
\* Longest time series / block list enumerated freely.
MaxSel == 3

TimeVals == {0, 1000, 5000, 9000}

\* The series of spec section 8.3, and a ten-frame series (section 8.4).
ExampleTimes == <<0, 1000, 5000, 9000>>
TenTimes == [k \in 1..10 |-> (k - 1) * 1000]

FrameArgs == {-5, -1, 0, 1, 2, 3, 9, 10, 50}
TimePsArgs == {0, 4, 30, 40, 70, 100}

\* np.clip(x, lo, hi) for lo <= hi.
ClipLo(x, lo, hi) == IF x < lo THEN lo ELSE x
Clip(x, lo, hi) == IF x < lo THEN lo ELSE IF x > hi THEN hi ELSE x

\* float(time_ps) * 1e-12, in femtoseconds from tenths of a picosecond.
PsToSeconds(tp) == tp * 100

\* np.abs(times - target)
AbsDiff(ts, target) == [k \in DOMAIN ts |-> Abs(ts[k] - target)]

\* ndarray.argmin(): a left-to-right scan that keeps the first minimum.
\* 0-based result, as in numpy.
RECURSIVE ArgMinScan(_, _, _)
ArgMinScan(d, k, best) ==
    IF k > Len(d) THEN best - 1
    ELSE ArgMinScan(d, k + 1, IF d[k] < d[best] THEN k ELSE best)

RECURSIVE ArgMinLastScan(_, _, _)
ArgMinLastScan(d, k, best) ==
    IF k > Len(d) THEN best - 1
    ELSE ArgMinLastScan(d, k + 1, IF d[k] <= d[best] THEN k ELSE best)

ArgMinLast(d) == ArgMinLastScan(d, 1, 1)
ArgMin(d) == ArgMinScan(d, 1, 1)

\* pick_block(blocks, frame, time_ps) -> index; count = len(blocks) >= 1.
\* The classic branch of main (lines 229-235) makes the same choice on Nt.
pick_block(ts, fr, tp) ==
    LET count == Len(ts) IN
    IF fr.given THEN Clip(fr.v, 0, count - 1)
    ELSE IF tp.given THEN ArgMin(AbsDiff(ts, PsToSeconds(tp.v)))
    ELSE count - 1

SelInit ==
    /\ times \in SeqsOf(TimeVals, 1, MaxSel) \cup {ExampleTimes, TenTimes}
    /\ frame \in {None} \cup {Some(f) : f \in FrameArgs}
    /\ time_ps \in {None} \cup {Some(t) : t \in TimePsArgs}
    /\ sel = [done |-> FALSE, i |-> 0]

SelIdle ==
    /\ times = <<>>
    /\ frame = None
    /\ time_ps = None
    /\ sel = [done |-> TRUE, i |-> 0]

\* One call of pick_block.
PickBlock ==
    /\ ~sel.done
    /\ sel' = [done |-> TRUE, i |-> pick_block(times, frame, time_ps)]
    /\ UNCHANGED <<times, frame, time_ps, notSel>>

(***************************************************************************)
(* Format detector: is_block_ascii_head                                    *)
(***************************************************************************)
\* A sample is a sequence of atoms whose concatenation is the text read
\* from the head of the file.  No atom contains a piece of another, so a
\* substring test on the text is a test on adjacent atoms.
MaxSample == 4

Atoms == {"step", "STEP", "time", "TIME", "=", " ", "ascii_ouput",
          "ASCII_OUPUT", "x", "1"}

\* str.lower() on one atom.
Lower(a) ==
    CASE a = "STEP" -> "step"
      [] a = "TIME" -> "time"
      [] a = "ASCII_OUPUT" -> "ascii_ouput"
      [] OTHER -> a

LowerText(s) == [k \in DOMAIN s |-> Lower(s[k])]

\* "<word>=" in text
HasWordEq(s, word) ==
    \E k \in 1..(Len(s) - 1) : s[k] = word /\ s[k + 1] = "="

HasAtom(s, a) == \E k \in DOMAIN s : s[k] = a

is_block_ascii_head_no_lower(s) ==
    \/ HasWordEq(s, "step") /\ HasWordEq(s, "time")
    \/ HasAtom(s, "ascii_ouput")

is_block_ascii_head(s) ==
    \/ HasWordEq(LowerText(s), "step") /\ HasWordEq(LowerText(s), "time")
    \/ HasAtom(LowerText(s), "ascii_ouput")

\* Zero or one blank.
OptSpace == {<<>>, <<" ">>}

\* Heads that hold a whole marker line "step = 1 time = 1", with or
\* without blanks around each "=".
MarkerHeads ==
    {<<st>> \o a \o <<"=">> \o b \o <<"1", " ", tm>> \o c \o <<"=">> \o d \o <<"1">> :
        st \in {"step", "STEP"}, tm \in {"time", "TIME"},
        a \in OptSpace, b \in OptSpace, c \in OptSpace, d \in OptSpace}

\* The first position from k on that holds no atom of the set cls (one past
\* the end when there is none).
RECURSIVE SkipWhile(_, _, _)
SkipWhile(s, k, cls) ==
    IF k <= Len(s) /\ s[k] \in cls THEN SkipWhile(s, k + 1, cls) ELSE k

Is(s, k, cls) == k <= Len(s) /\ s[k] \in cls

\* The atoms made of word characters (\w).
WordAtoms == Atoms \ {"=", " "}

\* BLOCK_START_RE matches from atom k on:
\*   \bstep\s*=\s*(\d+)\s+time\s*=\s*([Ee0-9\+\-\.]+)   re.IGNORECASE
block_start_at(s, k) ==
    LET eq1 == SkipWhile(s, k + 1, {" "})
        num == SkipWhile(s, eq1 + 1, {" "})
        gap == SkipWhile(s, num, {"1"})
        tim == SkipWhile(s, gap, {" "})
        eq2 == SkipWhile(s, tim + 1, {" "})
        val == SkipWhile(s, eq2 + 1, {" "})
    IN  /\ Is(s, k, {"step", "STEP"})
        /\ k > 1 => s[k - 1] \notin WordAtoms
        /\ Is(s, eq1, {"="})
        /\ Is(s, num, {"1"})
        /\ Is(s, gap, {" "})
        /\ Is(s, tim, {"time", "TIME"})
        /\ Is(s, eq2, {"="})
        /\ Is(s, val, {"1"})

\* BLOCK_START_RE.search(raw) on a head of one line.
block_start_search(s) == \E k \in DOMAIN s : block_start_at(s, k)

DetInit ==
    /\ sample \in SeqsOf(Atoms, 0, MaxSample) \cup MarkerHeads
    /\ det = [done |-> FALSE, block |-> FALSE]

DetIdle ==
    /\ sample = <<>>
    /\ det = [done |-> TRUE, block |-> FALSE]

\* One call of is_block_ascii_head on the sample.
Detect ==
    /\ ~det.done
    /\ det' = [done |-> TRUE, block |-> is_block_ascii_head(sample)]
    /\ UNCHANGED <<sample, notDet>>

(***************************************************************************)
(* Block-ASCII reader: parse_block_ascii                                   *)
(***************************************************************************)
\* A line of the stream is modelled by what the reader's tests see in it:
\*   marker     BLOCK_START_RE matches and float() accepts the time text
\*   badmarker  BLOCK_START_RE matches, float() rejects the time text
\*              (the class [Ee0-9+-.]+ also matches "1.2.3" or "--")
\*   label      HEADER_RE matches (the column-label line)
\*   row        7 tokens, all accepted by float(); v stands for the values
\*   short      a token count other than 7 (a blank line has 0)
\*   nonnum     7 tokens, one of them rejected by float()
\* The tests are applied in the order of the code.
MaxLines == 4

RowVals == {1, 2}

MarkerLine(st, t) == [k |-> "marker", step |-> st, time |-> t, v |-> 0]
RowLine(x) == [k |-> "row", step |-> 0, time |-> 0, v |-> x]
OtherLine(kind) == [k |-> kind, step |-> 0, time |-> 0, v |-> 0]

LineKinds ==
    {MarkerLine(1, 1000), MarkerLine(2, 2000)}
        \cup {RowLine(x) : x \in RowVals}
        \cup {OtherLine(kind) :
                 kind \in {"badmarker", "label", "blank", "short", "nonnum"}}

\* The text of spec section 8.7: two markers with 3 and 2 rows.
ExampleStream ==
    <<MarkerLine(1, 1000), RowLine(1), RowLine(2), RowLine(1),
      MarkerLine(2, 2000), RowLine(2), RowLine(1)>>

\* cur = None
NoBlock == [open |-> FALSE, step |-> 0, time_s |-> 0, rows |-> <<>>]

\* A flush that appends every block in progress, empty or not.
flush_always(bs, c) ==
    IF c.open
    THEN Append(bs, [step |-> c.step, time_s |-> c.time_s, data |-> c.rows])
    ELSE bs

\* Lines 58-61 and 79-82: "if cur and cur.get('rows')" then move the rows
\* to data and append the block.
flush(bs, c) ==
    IF c.open /\ c.rows # <<>>
    THEN Append(bs, [step |-> c.step, time_s |-> c.time_s, data |-> c.rows])
    ELSE bs

\* Line 62: the new in-progress block.
open_block(ln) ==
    [open |-> TRUE, step |-> ln.step, time_s |-> ln.time, rows |-> <<>>]

\* Lines 83-85: "if not blocks: raise ValueError(...)"
finish_never_fails(bs) == "returned"
finish(bs) == IF bs = <<>> THEN "NoData" ELSE "returned"

BlkInit ==
    /\ stream \in SeqsOf(LineKinds, 0, MaxLines) \cup {ExampleStream}
    /\ bpos = 0
    /\ cur = NoBlock
    /\ blocks = <<>>
    /\ bout = "running"

BlkIdle ==
    /\ stream = <<>>
    /\ bpos = 0
    /\ cur = NoBlock
    /\ blocks = <<>>
    /\ bout = "idle"

BlkHasLine == bout = "running" /\ bpos < Len(stream)
BlkLine == stream[bpos + 1]

\* Lines 55-63: a marker line flushes the block in progress and opens a
\* new one.
BlkMarker ==
    /\ BlkHasLine
    /\ BlkLine.k = "marker"
    /\ blocks' = flush(blocks, cur)
    /\ cur' = open_block(BlkLine)
    /\ bpos' = bpos + 1
    /\ UNCHANGED <<stream, bout, notBlk>>

\* Lines 55-62: the pattern matches, the previous block is flushed, and
\* float(m.group(2)) raises ValueError out of the reader.
BlkBadMarker ==
    /\ BlkHasLine
    /\ BlkLine.k = "badmarker"
    /\ blocks' = flush(blocks, cur)
    /\ bout' = "InvalidNumber"
    /\ bpos' = bpos + 1
    /\ UNCHANGED <<stream, cur, notBlk>>

\* Lines 64-65: no marker seen yet.
BlkSeeking ==
    /\ BlkHasLine
    /\ BlkLine.k \notin {"marker", "badmarker"}
    /\ ~cur.open
    /\ bpos' = bpos + 1
    /\ UNCHANGED <<stream, cur, blocks, bout, notBlk>>

\* Lines 66-68: the column-label line.
BlkLabel ==
    /\ BlkHasLine
    /\ cur.open
    /\ BlkLine.k = "label"
    /\ bpos' = bpos + 1
    /\ UNCHANGED <<stream, cur, blocks, bout, notBlk>>

\* Lines 69-76: seven tokens that all parse.
BlkRow ==
    /\ BlkHasLine
    /\ cur.open
    /\ BlkLine.k = "row"
    /\ cur' = [cur EXCEPT !.rows = Append(@, BlkLine.v)]
    /\ bpos' = bpos + 1
    /\ UNCHANGED <<stream, blocks, bout, notBlk>>

\* A reader that stores a line it should ignore as a row.
BlkIgnoreAsRow ==
    /\ BlkHasLine
    /\ cur.open
    /\ BlkLine.k \in {"blank", "short", "nonnum"}
    /\ cur' = [cur EXCEPT !.rows = Append(@, BlkLine.v)]
    /\ bpos' = bpos + 1
    /\ UNCHANGED <<stream, blocks, bout, notBlk>>

\* Lines 73 and 77-78: another token count, or a ValueError swallowed.
BlkIgnore ==
    /\ BlkHasLine
    /\ cur.open
    /\ BlkLine.k \in {"blank", "short", "nonnum"}
    /\ bpos' = bpos + 1
    /\ UNCHANGED <<stream, cur, blocks, bout, notBlk>>

BlkFinishNoFlush ==
    /\ bout = "running"
    /\ bpos = Len(stream)
    /\ bout' = finish(blocks)
    /\ UNCHANGED <<stream, bpos, cur, blocks, notBlk>>

\* Lines 79-85: end of stream.
BlkFinish ==
    /\ bout = "running"
    /\ bpos = Len(stream)
    /\ blocks' = flush(blocks, cur)
    /\ bout' = finish(blocks')
    /\ UNCHANGED <<stream, bpos, cur, notBlk>>

(***************************************************************************)
(* Classic dialect: the line source and its tokens                         *)
(***************************************************************************)
\* The file is a sequence of lines, a line a sequence of tokens, a token a
\* string.  pos is the number of lines readline() has returned.  A name
\* token stands for one 8-character slot of a names record, so the
\* positional split of _read_exact_names and the whitespace split of the
\* other readers see the same tokens.
Digits == <<"0", "1", "2", "3", "4", "5", "6", "7", "8", "9">>

\* The text written for a number of the generated files.
StrOf(x) == IF x = -1 THEN "-1" ELSE Digits[x + 1]

\* int(tok) / float(tok): defined on the number tokens, ValueError on the
\* rest.
IsNum(tok) == tok = "-1" \/ \E d \in 1..Len(Digits) : Digits[d] = tok
NumOf(tok) ==
    IF tok = "-1" THEN -1 ELSE (CHOOSE d \in 1..Len(Digits) : Digits[d] = tok) - 1

Min(a, b) == IF a < b THEN a ELSE b
Max(a, b) == IF a > b THEN a ELSE b

\* seq[:k]
Take(seq, k) == SubSeq(seq, 1, Min(Max(k, 0), Len(seq)))

\* Python indexing seq[i] (negative i counts from the end).
PyIdxOk(seq, i) == -Len(seq) <= i /\ i < Len(seq)
PyIdx(seq, i) == seq[(IF i < 0 THEN i + Len(seq) ELSE i) + 1]

\* Python slicing seq[a:b].
PyBound(seq, x) == IF x < 0 THEN Max(x + Len(seq), 0) ELSE Min(x, Len(seq))
PySlice(seq, a, b) == SubSeq(seq, PyBound(seq, a) + 1, PyBound(seq, b))

\* The number of tokens on lines a..b of f.
RECURSIVE TokCount(_, _, _)
TokCount(f, a, b) == IF a > b THEN 0 ELSE Len(f[a]) + TokCount(f, a + 1, b)

\* The lines of a token sequence wrapped at w tokens per line.
RECURSIVE Wrap(_, _)
Wrap(toks, w) ==
    IF toks = <<>> THEN <<>>
    ELSE <<Take(toks, w)>> \o Wrap(SubSeq(toks, w + 1, Len(toks)), w)

(***************************************************************************)
(* Classic dialect: the header decoder                                     *)
(***************************************************************************)
Ok(v, p) == [err |-> "ok", val |-> v, pos |-> p]
Raise(e, p) == [err |-> e, val |-> <<>>, pos |-> p]

\* _read_exact_names(fp, nfields), from line p of f.
RECURSIVE read_names_loop(_, _, _, _)
read_names_loop(f, p, nfields, acc) ==
    IF ~(Len(acc) < nfields) THEN Ok(Take(acc, nfields), p)
    ELSE IF p >= Len(f) THEN Raise("EOFError", p)
    ELSE read_names_loop(f, p + 1, nfields, acc \o f[p + 1])

read_exact_names(f, p, nfields) == read_names_loop(f, p, nfields, <<>>)

\* The numbers of a line, or ValueError if one token is no number.
LineIsNum(line) == \A k \in DOMAIN line : IsNum(line[k])
LineNums(line) == [k \in DOMAIN line |-> NumOf(line[k])]

\* _read_exact_ints(fp, nfields) and _read_values(fp, nvals): the same loop
\* with int() and float().
RECURSIVE read_nums_loop(_, _, _, _)
read_nums_loop(f, p, nfields, acc) ==
    IF ~(Len(acc) < nfields) THEN Ok(Take(acc, nfields), p)
    ELSE IF p >= Len(f) THEN Raise("EOFError", p)
    ELSE IF ~LineIsNum(f[p + 1]) THEN Raise("ValueError", p + 1)
    ELSE read_nums_loop(f, p + 1, nfields, acc \o LineNums(f[p + 1]))

\* A reader that answers an exhausted stream with the codes read so far,
\* none, instead of raising.
read_exact_ints_no_eof(f, p, nfields) ==
    LET r == read_nums_loop(f, p, nfields, <<>>)
    IN  IF r.err = "EOFError" THEN Ok(<<>>, r.pos) ELSE r
read_exact_ints(f, p, nfields) == read_nums_loop(f, p, nfields, <<>>)

\* The numbers of lines a..b of f, in order.
RECURSIVE NumsOfLines(_, _, _)
NumsOfLines(f, a, b) ==
    IF a > b THEN <<>> ELSE LineNums(f[a]) \o NumsOfLines(f, a + 1, b)

\* A reader that returns the last nvals values of the lines it read, not
\* the first.
read_values_last(f, p, nvals) ==
    LET r == read_nums_loop(f, p, nvals, <<>>)
        all == NumsOfLines(f, p + 1, r.pos)
    IN  IF r.err = "ok"
        THEN [r EXCEPT !.val = SubSeq(all, Len(all) - nvals + 1, Len(all))]
        ELSE r

\* _read_values(fp, nvals)
read_values(f, p, nvals) == read_nums_loop(f, p, nvals, <<>>)

\* Lines 121-123: the element count of a section.
read_count(f, p) ==
    IF p >= Len(f) THEN Raise("EOFError", p)
    ELSE IF f[p + 1] = <<>> THEN Raise("IndexError", p + 1)
    ELSE IF ~IsNum(f[p + 1][1]) THEN Raise("ValueError", p + 1)
    ELSE Ok(NumOf(f[p + 1][1]), p + 1)

Item(name, L) == [name |-> name, L |-> L]

\* Line 129: items, i, ok = [], 0, True
WalkStart == [i |-> 0, items |-> <<>>, ok |-> TRUE, st |-> "loop"]

\* st = "loop": the while test of line 130 is still to be made.
\* One pass through lines 130-139.
walk_step(ns, ls, n, w) ==
    IF ~(w.i < n) THEN [w EXCEPT !.st = "end"]
    ELSE IF ~PyIdxOk(ns, w.i) THEN [w EXCEPT !.st = "IndexError"]
    ELSE
        LET name == PyIdx(ns, w.i)
            L == PyIdx(ls, w.i)
            j == w.i + L
        IN  IF L = 0
            THEN [w EXCEPT !.items = Append(@, Item(name, 0)), !.i = w.i + 1]
            ELSE IF /\ j <= n
                    /\ \A k \in DOMAIN PySlice(ns, w.i, j) : PySlice(ns, w.i, j)[k] = name
                    /\ \A k \in DOMAIN PySlice(ls, w.i, j) : PySlice(ls, w.i, j)[k] = L
                 THEN [w EXCEPT !.items = Append(@, Item(name, L)), !.i = j]
                 ELSE [w EXCEPT !.ok = FALSE, !.st = "end"]

\* Lines 140-141: the fallback, one item per (name, length) pair.
zip_items(ns, ls) == [k \in 1..Min(Len(ns), Len(ls)) |-> Item(ns[k], ls[k])]

\* A fallback that keeps the items found so far and adds the pairs from
\* position i on.
final_items_keep_prefix(ns, ls, w) ==
    IF ~w.ok
    THEN w.items \o SubSeq(zip_items(ns, ls), Max(w.i, 0) + 1,
                           Min(Len(ns), Len(ls)))
    ELSE w.items

final_items(ns, ls, w) == IF ~w.ok THEN zip_items(ns, ls) ELSE w.items

\* A sum that counts every descriptor once, whatever its length.
total_values_len(its) == Len(its)

\* Line 142: sum(1 if L == 0 else L for _, L in items)
RECURSIVE total_values(_)
total_values(its) ==
    IF its = <<>> THEN 0
    ELSE (IF its[1].L = 0 THEN 1 ELSE its[1].L) + total_values(Tail(its))

\* Bounds of the generated headers: declared element count, tokens per
\* line, and the number of items after which a walk that does not end is
\* cut off.
MaxN == 3
MaxWrap == 2
MaxItems == 6

Names == {"A", "B"}
LenCodes == {-1, 0, 1, 2}

StrsOf(xs) == [k \in DOMAIN xs |-> StrOf(xs[k])]

\* A section header as written: the count line, the names and the length
\* codes, each wrapped at w tokens per line.
HeaderLines(ns, ls, w) ==
    <<<<StrOf(Len(ns))>>>> \o Wrap(ns, w) \o Wrap(StrsOf(ls), w)

\* The headers written for n = 0..MaxN: names, codes and wrap width.
HeaderChoices(codes) ==
    UNION {[1..n -> Names] \X [1..n -> codes] \X (1..MaxWrap) : n \in 0..MaxN}

\* Count lines that are blank, not a number, or negative.
OddCountFiles ==
    {<<c>> \o rest : c \in {<<>>, <<"x">>, <<"-1">>},
                     rest \in {<<>>, <<<<"A">>, <<"0">>>>}}

NoHeader == [n |-> 0, names |-> <<>>, lens |-> <<>>]
NoResult == [out |-> "running", items |-> <<>>, total_values |-> 0]

\* A written header truncated after any line, or an odd count line.
HdrInit ==
    /\ \/ \E c \in HeaderChoices(LenCodes) :
            \E cut \in 0..Len(HeaderLines(c[1], c[2], c[3])) :
                file = Take(HeaderLines(c[1], c[2], c[3]), cut)
       \/ file \in OddCountFiles
    /\ pos = 0
    /\ hpc = "count"
    /\ hdr = NoHeader
    /\ walk = WalkStart
    /\ hres = NoResult

HdrIdle ==
    /\ hpc = "idle"
    /\ hdr = NoHeader
    /\ walk = WalkStart
    /\ hres = NoResult

SrcIdle ==
    /\ file = <<>>
    /\ pos = 0

HdrFail(e) ==
    /\ hres' = [hres EXCEPT !.out = e]
    /\ hpc' = "done"

\* Lines 121-123.
HdrReadCount ==
    /\ hpc = "count"
    /\ LET r == read_count(file, pos) IN
        /\ pos' = r.pos
        /\ IF r.err # "ok"
           THEN HdrFail(r.err) /\ UNCHANGED hdr
           ELSE /\ hdr' = [hdr EXCEPT !.n = r.val]
                /\ hpc' = "names"
                /\ UNCHANGED hres
    /\ UNCHANGED <<file, walk, notHdr>>

\* Line 124.
HdrReadNames ==
    /\ hpc = "names"
    /\ LET r == read_exact_names(file, pos, hdr.n) IN
        /\ pos' = r.pos
        /\ IF r.err # "ok"
           THEN HdrFail(r.err) /\ UNCHANGED hdr
           ELSE /\ hdr' = [hdr EXCEPT !.names = r.val]
                /\ hpc' = "ints"
                /\ UNCHANGED hres
    /\ UNCHANGED <<file, walk, notHdr>>

\* Lines 125-129.
HdrReadInts ==
    /\ hpc = "ints"
    /\ LET r == read_exact_ints(file, pos, hdr.n) IN
        /\ pos' = r.pos
        /\ IF r.err # "ok"
           THEN HdrFail(r.err) /\ UNCHANGED hdr
           ELSE IF Len(hdr.names) # Len(r.val)
           THEN HdrFail("ValueError") /\ UNCHANGED hdr
           ELSE /\ hdr' = [hdr EXCEPT !.lens = r.val]
                /\ hpc' = "walk"
                /\ UNCHANGED hres
    /\ UNCHANGED <<file, walk, notHdr>>

\* Lines 130-139, one pass of the while loop (or its last test).
HdrWalkStep ==
    /\ hpc = "walk"
    /\ walk.st = "loop"
    /\ Len(walk.items) < MaxItems
    /\ walk' = walk_step(hdr.names, hdr.lens, hdr.n, walk)
    /\ IF walk'.st = "IndexError"
       THEN HdrFail("IndexError")
       ELSE UNCHANGED <<hpc, hres>>
    /\ UNCHANGED <<file, pos, hdr, notHdr>>

\* Lines 140-143.
HdrFinish ==
    /\ hpc = "walk"
    /\ walk.st = "end"
    /\ LET its == final_items(hdr.names, hdr.lens, walk) IN
        hres' = [out |-> "returned", items |-> its,
                 total_values |-> total_values(its)]
    /\ hpc' = "done"
    /\ UNCHANGED <<file, pos, hdr, walk, notHdr>>

(***************************************************************************)
(* Classic dialect: read_classic_fort10                                    *)
(***************************************************************************)
\* _read_section_header as one call: the walk run to its end.  Used where
\* the length codes are not negative, so that the walk ends.
RECURSIVE walk_run(_, _, _, _)
walk_run(ns, ls, n, w) ==
    IF w.st # "loop" THEN w ELSE walk_run(ns, ls, n, walk_step(ns, ls, n, w))

HdrRaise(e, p) == [err |-> e, items |-> <<>>, total_values |-> 0, pos |-> p]

read_section_header(f, p) ==
    LET c == read_count(f, p) IN
    IF c.err # "ok" THEN HdrRaise(c.err, c.pos) ELSE
    LET ns == read_exact_names(f, c.pos, c.val) IN
    IF ns.err # "ok" THEN HdrRaise(ns.err, ns.pos) ELSE
    LET ls == read_exact_ints(f, ns.pos, c.val) IN
    IF ls.err # "ok" THEN HdrRaise(ls.err, ls.pos) ELSE
    IF Len(ns.val) # Len(ls.val) THEN HdrRaise("ValueError", ls.pos) ELSE
    LET w == walk_run(ns.val, ls.val, c.val, WalkStart) IN
    IF w.st = "IndexError" THEN HdrRaise("IndexError", ls.pos) ELSE
    LET its == final_items(ns.val, ls.val, w) IN
    [err |-> "ok", items |-> its, total_values |-> total_values(its),
     pos |-> ls.pos]

\* Lines 153-155: _skip_static.
skip_static(f, p) ==
    LET meta == read_section_header(f, p) IN
    IF meta.err # "ok" THEN Raise(meta.err, meta.pos)
    ELSE read_values(f, meta.pos, meta.total_values)

\* Bounds of the generated dynamic sections: declared element count and
\* number of lines after the header.
MaxDynN == 2
MaxRecLines == 3

DynCodes == {0, 1, 2}
LineLens == {0, 1, 2}

\* The static section of the generated files: one scalar and its value.
StaticLines == <<<<"1">>, <<"S">>, <<"0">>, <<"7">>>>

RECURSIVE SumSeq(_)
SumSeq(xs) == IF xs = <<>> THEN 0 ELSE xs[1] + SumSeq(Tail(xs))

\* The lines of a layout (a sequence of line lengths): the k-th value token
\* of the stream is the number k, or "x" at position bad.
ValueTok(k, bad) == IF k = bad THEN "x" ELSE StrOf(k)

RECURSIVE LayoutLines(_, _, _)
LayoutLines(lay, done, bad) ==
    IF lay = <<>> THEN <<>>
    ELSE <<[k \in 1..lay[1] |-> ValueTok(done + k, bad)]>>
            \o LayoutLines(Tail(lay), done + lay[1], bad)

RecordLayouts == SeqsOf(LineLens, 0, MaxRecLines)

DynHeaders ==
    UNION {[1..n -> Names] \X [1..n -> DynCodes] : n \in 0..MaxDynN}

\* A static section, a dynamic header and the lines after it.
ClassicFile(h, lay, bad) ==
    StaticLines \o HeaderLines(h[1], h[2], MaxWrap) \o LayoutLines(lay, 0, bad)

\* The value token that is no number: none, the first or the last.
BadChoices(lay) == {0, 1, SumSeq(lay)}

\* A file that ends inside the static section or the dynamic header.
ShortFile(cut) ==
    Take(StaticLines \o HeaderLines(<<"A">>, <<0>>, MaxWrap), cut)

NoDyn == [items |-> <<>>, rec_n |-> 0]

\* What the loop of lines 164-172 did: the frames it decoded, how it was
\* left ("boundary": readline() at line 166 found the end; "mid": EOFError
\* after at least one value of a record; "blank": EOFError with no value
\* read), and the position at which it started.
NoLoop ==
    [frames |-> 0, how |-> "none", start |-> 0,
     vals |-> <<>>, from |-> 0, to |-> 0]

NoOut == [out |-> "running", shape |-> <<>>, fh |-> "none"]

ClsInit ==
    /\ \/ \E h \in DynHeaders, lay \in RecordLayouts :
            \E bad \in BadChoices(lay) : file = ClassicFile(h, lay, bad)
       \/ \E cut \in 0..6 : file = ShortFile(cut)
    /\ pos = 0
    /\ cpc = "static"
    /\ dyn = NoDyn
    /\ data = <<>>
    /\ loop = NoLoop
    /\ cres = NoOut

ClsIdle ==
    /\ cpc = "idle"
    /\ dyn = NoDyn
    /\ data = <<>>
    /\ loop = NoLoop
    /\ cres = NoOut

\* A with statement that forgets the handle it was given.
with_exit_leak(fh) == fh

\* Line 158: control leaves the with block, by break or by an exception;
\* the handle is closed.
with_exit(fh) == "closed"

\* An exception leaves read_classic_fort10, through the with block when
\* it is raised inside it.
ClsFail(e) ==
    /\ cres' = [cres EXCEPT !.out = e, !.fh = with_exit(@)]
    /\ cpc' = "done"

\* Lines 158-159: the file is opened and the static section skipped.
ClsSkipStatic ==
    /\ cpc = "static"
    /\ LET r == skip_static(file, pos) IN
        /\ pos' = r.pos
        /\ IF r.err # "ok" THEN ClsFail(r.err)
           ELSE cpc' = "dyn" /\ cres' = [cres EXCEPT !.fh = "open"]
    /\ UNCHANGED <<file, dyn, data, loop, notCls>>

\* Line 163: data = {name: [] for name, _ in items}
empty_data(its) == [nm \in {its[k].name : k \in DOMAIN its} |-> <<>>]

\* Lines 160-163.
ClsDynHeader ==
    /\ cpc = "dyn"
    /\ LET r == read_section_header(file, pos) IN
        /\ pos' = r.pos
        /\ IF r.err # "ok"
           THEN ClsFail(r.err) /\ UNCHANGED <<dyn, data, loop>>
           ELSE /\ dyn' = [items |-> r.items, rec_n |-> r.total_values]
                /\ data' = empty_data(r.items)
                /\ loop' = [loop EXCEPT !.start = r.pos]
                /\ cpc' = "loop"
                /\ UNCHANGED cres
    /\ UNCHANGED <<file, notCls>>

\* An entry of a variable's list: a float (arr = FALSE, one value) or the
\* list vals[cur:cur+L].
Scalar(x) == [arr |-> FALSE, v |-> <<x>>]
Vector(xs) == [arr |-> TRUE, v |-> xs]

\* A slicing that also stores a run of length 1 as a float.
RECURSIVE append_frame_unit_scalar(_, _, _, _)
append_frame_unit_scalar(d, its, vals, c) ==
    IF its = <<>> THEN d
    ELSE LET it == its[1] IN
         IF it.L = 0 \/ it.L = 1
         THEN append_frame_unit_scalar(
                  [d EXCEPT ![it.name] = Append(@, Scalar(PyIdx(vals, c)))],
                  Tail(its), vals, c + 1)
         ELSE append_frame_unit_scalar(
                  [d EXCEPT ![it.name] =
                       Append(@, Vector(PySlice(vals, c, c + it.L)))],
                  Tail(its), vals, c + it.L)

\* Lines 173-178: the values of one record appended item by item.
RECURSIVE append_frame(_, _, _, _)
append_frame(d, its, vals, c) ==
    IF its = <<>> THEN d
    ELSE LET it == its[1] IN
         IF it.L = 0
         THEN append_frame([d EXCEPT ![it.name] = Append(@, Scalar(PyIdx(vals, c)))],
                           Tail(its), vals, c + 1)
         ELSE append_frame([d EXCEPT ![it.name] =
                                Append(@, Vector(PySlice(vals, c, c + it.L)))],
                           Tail(its), vals, c + it.L)

\* Lines 165-167: readline() returns nothing, the loop is left.
ClsPeekEOF ==
    /\ cpc = "loop"
    /\ pos >= Len(file)
    /\ loop' = [loop EXCEPT !.how = "boundary"]
    /\ cpc' = "convert"
    /\ cres' = [cres EXCEPT !.fh = with_exit(@)]
    /\ UNCHANGED <<file, pos, dyn, data, notCls>>

\* Lines 165-178: a record is read and sliced.  (With rec_n = 0 no line is
\* consumed and the loop does not end; the model stops counting after one
\* pass per line of the file.)
ClsReadFrame ==
    /\ cpc = "loop"
    /\ pos < Len(file)
    /\ loop.frames <= Len(file)
    /\ LET r == read_values(file, pos, dyn.rec_n) IN
        /\ r.err = "ok"
        /\ pos' = r.pos
        /\ data' = append_frame(data, dyn.items, r.val, 0)
        /\ loop' = [loop EXCEPT !.frames = @ + 1,
                                !.vals = r.val, !.from = pos, !.to = r.pos]
    /\ UNCHANGED <<file, dyn, cpc, cres, notCls>>

\* A loop without the except clause of line 171: EOFError reaches the
\* caller.
ClsFrameEOFRaises ==
    /\ cpc = "loop"
    /\ pos < Len(file)
    /\ read_values(file, pos, dyn.rec_n).err = "EOFError"
    /\ pos' = Len(file)
    /\ loop' = [loop EXCEPT !.how =
                    IF TokCount(file, pos + 1, Len(file)) > 0 THEN "mid" ELSE "blank"]
    /\ ClsFail("EOFError")
    /\ UNCHANGED <<file, dyn, data, notCls>>

\* Lines 169-172: the stream ends inside a record; EOFError is caught and
\* the loop is left, the values read so far dropped.
ClsFrameEOF ==
    /\ cpc = "loop"
    /\ pos < Len(file)
    /\ read_values(file, pos, dyn.rec_n).err = "EOFError"
    /\ pos' = Len(file)
    /\ loop' = [loop EXCEPT !.how =
                    IF TokCount(file, pos + 1, Len(file)) > 0 THEN "mid" ELSE "blank"]
    /\ cpc' = "convert"
    /\ cres' = [cres EXCEPT !.fh = with_exit(@)]
    /\ UNCHANGED <<file, dyn, data, notCls>>

\* Line 150 under line 170: float() rejects a token; ValueError is not
\* caught.
ClsFrameBad ==
    /\ cpc = "loop"
    /\ pos < Len(file)
    /\ LET r == read_values(file, pos, dyn.rec_n) IN
        /\ r.err = "ValueError"
        /\ pos' = r.pos
    /\ ClsFail("ValueError")
    /\ UNCHANGED <<file, dyn, data, loop, notCls>>

\* np.array(seq, dtype=float): a list of floats gives a 1-D array, a list of
\* equally long lists a 2-D array, anything else raises ValueError.
Ragged(seq) ==
    \E a, b \in DOMAIN seq :
        seq[a].arr # seq[b].arr \/ Len(seq[a].v) # Len(seq[b].v)

shape_of(seq) ==
    [frames |-> Len(seq),
     ndim |-> IF seq # <<>> /\ seq[1].arr THEN 2 ELSE 1]

\* Lines 179-183.
ClsConvert ==
    /\ cpc = "convert"
    /\ IF \E nm \in DOMAIN data : Ragged(data[nm])
       THEN ClsFail("ValueError")
       ELSE /\ cres' = [out |-> "returned",
                        shape |-> [nm \in DOMAIN data |-> shape_of(data[nm])],
                        fh |-> cres.fh]
            /\ cpc' = "done"
    /\ UNCHANGED <<file, pos, dyn, data, loop, notCls>>

(***************************************************************************)
(* Trace plot: plot_trace of script.py                                     *)
(***************************************************************************)
\* Largest number of cells and of frames of the enumerated series.
MaxCells == 3
MaxFrames == 2

CellVals == {0, 1}

\* A series as read_fort10 builds it: a variable of count 1 is squeezed to
\* a 1-D array (one value per frame), a variable of count N > 1 is a 2-D
\* array of Nt rows and N columns.  Nt >= 1: the reader fails on a file
\* without a frame.
Series1D == [ndim : {1}, ncell : {1}, rows : SeqsOf(CellVals, 1, MaxFrames)]
Series2D(n) ==
    [ndim : {2}, ncell : {n}, rows : SeqsOf([1..n -> CellVals], 1, MaxFrames)]

\* The values of --cell tried against a series of n cells.
CellArgs(n) == {None} \cup {Some(c) : c \in (-n - 1)..(n + 1)}

NoSeries == [ndim |-> 1, ncell |-> 1, rows |-> <<>>]
NoTrace == [out |-> "running", cell |-> 0, y |-> <<>>]

\* arr[:, cell]
Column(rows, c) == [f \in DOMAIN rows |-> PyIdx(rows[f], c)]

\* A test that lets the negative indices of Python through.
cell_in_range_py(c, n) == -n <= c /\ c < n

\* Line 204: 0 <= cell < arr.shape[1]
cell_in_range(c, n) == 0 <= c /\ c < n

TrcInit ==
    /\ tpc = "lookup"
    /\ \E known \in BOOLEAN :
          \/ \E a \in Series1D, c \in CellArgs(1) :
                tdyn = [known |-> known, arr |-> a] /\ tcell = c
          \/ \E n \in 2..MaxCells :
                \E a \in Series2D(n), c \in CellArgs(n) :
                    tdyn = [known |-> known, arr |-> a] /\ tcell = c
    /\ tres = NoTrace

TrcIdle ==
    /\ tpc = "idle"
    /\ tdyn = [known |-> FALSE, arr |-> NoSeries]
    /\ tcell = None
    /\ tres = NoTrace

\* Lines 190-192: the variable is not in the mapping.
TrcUnknown ==
    /\ tpc = "lookup"
    /\ ~tdyn.known
    /\ tres' = [tres EXCEPT !.out = "KeyError"]
    /\ tpc' = "done"
    /\ UNCHANGED <<tdyn, tcell, notTrc>>

\* Lines 193-195.
TrcLookup ==
    /\ tpc = "lookup"
    /\ tdyn.known
    /\ tpc' = IF tdyn.arr.ndim = 1 THEN "scalar" ELSE "cell"
    /\ UNCHANGED <<tdyn, tcell, tres, notTrc>>

\* Lines 196-200: a scalar series is plotted as it is.
TrcScalar ==
    /\ tpc = "scalar"
    /\ tres' = [tres EXCEPT !.out = "plotted", !.y = tdyn.arr.rows]
    /\ tpc' = "done"
    /\ UNCHANGED <<tdyn, tcell, notTrc>>

\* Lines 202-203: cell is None.
TrcDefaultCell ==
    /\ tpc = "cell"
    /\ ~tcell.given
    /\ tres' = [tres EXCEPT !.cell = tdyn.arr.ncell \div 2]
    /\ tpc' = "range"
    /\ UNCHANGED <<tdyn, tcell, notTrc>>

\* Line 202: a cell was given.
TrcGivenCell ==
    /\ tpc = "cell"
    /\ tcell.given
    /\ tres' = [tres EXCEPT !.cell = tcell.v]
    /\ tpc' = "range"
    /\ UNCHANGED <<tdyn, tcell, notTrc>>

\* Lines 204-205.
TrcRangeFail ==
    /\ tpc = "range"
    /\ ~cell_in_range(tres.cell, tdyn.arr.ncell)
    /\ tres' = [tres EXCEPT !.out = "IndexError"]
    /\ tpc' = "done"
    /\ UNCHANGED <<tdyn, tcell, notTrc>>

\* Line 206: plt.plot(t, arr[:, cell])
TrcPlot ==
    /\ tpc = "range"
    /\ cell_in_range(tres.cell, tdyn.arr.ncell)
    /\ tres' = [tres EXCEPT !.out = "plotted",
                            !.y = Column(tdyn.arr.rows, tres.cell)]
    /\ tpc' = "done"
    /\ UNCHANGED <<tdyn, tcell, notTrc>>

(***************************************************************************)
(* Length units: unit_factor_to_um and its use in main                     *)
(***************************************************************************)
\* Longest coordinate column converted.
MaxUnitVals == 3

CoordVals == {0, 1, 2}

\* The values of --xunit tried; an option that is None stands for a call
\* without a unit.
UnitArgs ==
    {"cm", "CM", "Cm", "m", "M", "meter", "Meter", "meters", "METERS",
     "um", "UM", "µm", "micron", "Micron", "microns", "MICRONS",
     "mm", "km", "ft", "FT", "inch", ""}

\* A unit string as it stands.
UnitSame(u) == u

\* Line 30: str.lower on the strings of UnitArgs.
UnitLower(u) ==
    CASE u \in {"CM", "Cm"} -> "cm"
      [] u = "M" -> "m"
      [] u = "Meter" -> "meter"
      [] u = "METERS" -> "meters"
      [] u = "UM" -> "um"
      [] u = "Micron" -> "micron"
      [] u = "MICRONS" -> "microns"
      [] u = "FT" -> "ft"
      [] OTHER -> u

\* Lines 29-34: the factor, or no factor when SystemExit is raised.
unit_factor_to_um(xu) ==
    LET u == UnitLower(IF xu.given THEN xu.v ELSE "") IN
    IF u \in {"cm"} THEN Some(10000)
    ELSE IF u \in {"m", "meter", "meters"} THEN Some(1000000)
    ELSE IF u \in {"um", "µm", "micron", "microns"} THEN Some(1)
    ELSE None

NoUnit == [given |-> FALSE, v |-> ""]
NoConv == [out |-> "running", factor |-> 0, vals |-> <<>>]

UntInit ==
    /\ xunit \in {NoUnit} \cup {[given |-> TRUE, v |-> u] : u \in UnitArgs}
    /\ xvals \in SeqsOf(CoordVals, 0, MaxUnitVals)
    /\ ures = NoConv

UntIdle ==
    /\ xunit = NoUnit
    /\ xvals = <<>>
    /\ ures = [NoConv EXCEPT !.out = "idle"]

\* Line 218: x_um = x * unit_factor_to_um(args.xunit)
UntConvert ==
    /\ ures.out = "running"
    /\ unit_factor_to_um(xunit).given
    /\ LET fac == unit_factor_to_um(xunit).v IN
          ures' = [out |-> "converted", factor |-> fac,
                   vals |-> [k \in DOMAIN xvals |-> xvals[k] * fac]]
    /\ UNCHANGED <<xunit, xvals, notUnt>>

\* Line 34: raise SystemExit.
UntFail ==
    /\ ures.out = "running"
    /\ ~unit_factor_to_um(xunit).given
    /\ ures' = [ures EXCEPT !.out = "SystemExit"]
    /\ UNCHANGED <<xunit, xvals, notUnt>>

(***************************************************************************)
(* Boxcar filter: boxcar                                                   *)
(***************************************************************************)
\* Longest profile filtered; the window runs to MaxBoxLen + 2.
MaxBoxLen == 3

ProfileVals == {0, 1, 2}

\* The values of --smooth tried (None: no window given).
SmoothArgs == {None} \cup {Some(k) : k \in -1..(MaxBoxLen + 2)}

\* sum(y[a..b]) with 0-based a..b.
RECURSIVE RangeSum(_, _, _)
RangeSum(y, a, b) == IF a > b THEN 0 ELSE y[a + 1] + RangeSum(y, a + 1, b)

\* Entry j (0-based) of the full convolution of y with k ones.
FullAt(y, k, j) == RangeSum(y, Max(0, j - k + 1), Min(Len(y) - 1, j))

\* np.convolve(y, ones(k)/k, mode="same"): the middle max(len(y), k)
\* entries of the full convolution, as numerators over the divisor k.
convolve_same(y, k) ==
    LET n == Len(y)
        off == (Min(n, k) - 1) \div 2
    IN  [i \in 1..Max(n, k) |-> FullAt(y, k, i - 1 + off)]

\* The middle len(y) entries of the full convolution, whatever k.
convolve_same_as_input(y, k) ==
    LET off == (k - 1) \div 2
    IN  [i \in 1..Len(y) |-> FullAt(y, k, i - 1 + off)]

NoBox == [out |-> "running", num |-> <<>>, den |-> 1]

\* The profile has at least one cell: a block has a row, a frame a cell.
BoxInit ==
    /\ by \in SeqsOf(ProfileVals, 1, MaxBoxLen)
    /\ bk \in SmoothArgs
    /\ bres = NoBox

BoxIdle ==
    /\ by = <<>>
    /\ bk = None
    /\ bres = [NoBox EXCEPT !.out = "idle"]

\* Line 37: k is None or k <= 1, y is returned.
BoxNoop ==
    /\ bres.out = "running"
    /\ (~bk.given \/ bk.v <= 1)
    /\ bres' = [out |-> "returned", num |-> by, den |-> 1]
    /\ UNCHANGED <<by, bk, notBox>>

\* Lines 38-39.
BoxConvolve ==
    /\ bres.out = "running"
    /\ bk.given /\ bk.v > 1
    /\ bres' = [out |-> "returned", num |-> convolve_same(by, bk.v), den |-> bk.v]
    /\ UNCHANGED <<by, bk, notBox>>

(***************************************************************************)
(* Variable grouping of script.py: group_structure, read_section_header    *)
(* and the offsets of read_fort10                                          *)
(***************************************************************************)
\* Most names in a section header.
MaxGrpN == 4

\* The labels of the names records, as read (with their padding).
RawNames == {"A", "A ", "B", "C"}

\* nm.strip()
Strip(nm) == IF nm = "A " THEN "A" ELSE nm

NoGroups ==
    [i |-> 0, count |-> <<>>, order |-> <<>>, offsets |-> <<>>, off |-> 0]

GrpInit ==
    /\ gnames \in SeqsOf(RawNames, 0, MaxGrpN)
    /\ gpc = "count"
    /\ grp = NoGroups

GrpIdle ==
    /\ gnames = <<>>
    /\ gpc = "idle"
    /\ grp = NoGroups

\* defaultdict: the count of a key not yet seen is 0.
CountOf(cnt, key) == IF key \in DOMAIN cnt THEN cnt[key] ELSE 0

\* Lines 63-67: one pass of the loop of group_structure (the indices a
\* group keeps play no part in the offsets and are left out).
GrpCountStep ==
    /\ gpc = "count"
    /\ grp.i < Len(gnames)
    /\ LET key == Strip(gnames[grp.i + 1]) IN
          grp' = [grp EXCEPT
                     !.i = @ + 1,
                     !.count = (key :> (CountOf(grp.count, key) + 1)) @@ grp.count]
    /\ UNCHANGED <<gnames, gpc, notGrp>>

\* Lines 68-70 and 94-96: the groups are complete, the order is started.
GrpCountEnd ==
    /\ gpc = "count"
    /\ grp.i = Len(gnames)
    /\ gpc' = "order"
    /\ grp' = [grp EXCEPT !.i = 0]
    /\ UNCHANGED <<gnames, notGrp>>

\* Lines 97-101: a key is added to the order at its first occurrence.
GrpOrderStep ==
    /\ gpc = "order"
    /\ grp.i < Len(gnames)
    /\ LET key == Strip(gnames[grp.i + 1]) IN
          grp' = [grp EXCEPT
                     !.i = @ + 1,
                     !.order = IF \E k \in DOMAIN grp.order : grp.order[k] = key
                               THEN @ ELSE Append(@, key)]
    /\ UNCHANGED <<gnames, gpc, notGrp>>

\* Lines 102 and 134-137.
GrpOrderEnd ==
    /\ gpc = "order"
    /\ grp.i = Len(gnames)
    /\ gpc' = "offsets"
    /\ grp' = [grp EXCEPT !.i = 0, !.off = 0]
    /\ UNCHANGED <<gnames, notGrp>>

\* Line 139: offsets[nm] = (off, off + gcounts[nm])
offset_range(off, cnt) == [a |-> off, b |-> off + cnt]

\* Lines 138-140: one pass of the offsets loop.
GrpOffsetStep ==
    /\ gpc = "offsets"
    /\ grp.i < Len(grp.order)
    /\ LET nm == grp.order[grp.i + 1]
           cnt == grp.count[nm]
       IN  grp' = [grp EXCEPT
                      !.i = @ + 1,
                      !.offsets = (nm :> offset_range(grp.off, cnt)) @@ grp.offsets,
                      !.off = @ + cnt]
    /\ UNCHANGED <<gnames, gpc, notGrp>>

\* Lines 142-149: the slices frames_flat[:, a:b] are taken.
GrpOffsetEnd ==
    /\ gpc = "offsets"
    /\ grp.i = Len(grp.order)
    /\ gpc' = "done"
    /\ UNCHANGED <<gnames, grp, notGrp>>

(***************************************************************************)
(* Step-filtered fort.11 readers: read_step_data of plotter_overlay.py,    *)
(* the line loop of Test1/Ti_hot/plotter.py and the collect loop of        *)
(* runs/MaxwellSolver/0d70e13Wcm2_5ps/script.py                            *)
(***************************************************************************)
\* Most lines of a fort.11 stream.
MaxStepLines == 4

\* The configured step (step = 5 of plotter.py; the other two readers take
\* theirs the same way).
StepCfg == 5

\* The lines of a stream: a blank line, a marker "step= s time= t" (four
\* tokens), a row of seven numbers, a line of three numbers, a line of
\* seven words.
StepLines ==
    {[kind |-> "blank", step |-> 0, v |-> 0],
     [kind |-> "short", step |-> 0, v |-> 0],
     [kind |-> "text", step |-> 0, v |-> 0]}
    \cup {[kind |-> "marker", step |-> st, v |-> 0] : st \in {StepCfg, StepCfg + 1}}
    \cup {[kind |-> "row", step |-> 0, v |-> 1]}

Readers == {"overlay", "plotter", "maxwell"}

NoStep == [rows |-> <<>>, step_r |-> None, collect |-> FALSE]

StpInit ==
    /\ fstream \in SeqsOf(StepLines, 0, MaxStepLines)
    /\ fvar \in Readers
    /\ fpos = 0
    /\ fst = NoStep

StpIdle ==
    /\ fstream = <<>>
    /\ fvar = "idle"
    /\ fpos = 0
    /\ fst = NoStep

StpLine == fstream[fpos + 1]

StpHasLine == fvar \in Readers /\ fpos < Len(fstream)

\* continue: the next line is taken.
StpContinue == fpos' = fpos + 1

\* break: the loop is left.
StpBreak == fpos' = Len(fstream) + 1

\* "if rows: break" of the two plotters.
StpBreakIfRows == IF fst.rows # <<>> THEN StpBreak ELSE StpContinue

\* A blank line: plotter_overlay.py 17-19, plotter.py 19-21, script.py
\* 85-86.
StpBlank ==
    /\ StpHasLine
    /\ StpLine.kind = "blank"
    /\ IF fvar = "maxwell" THEN StpContinue ELSE StpBreakIfRows
    /\ UNCHANGED <<fstream, fvar, fst, notStp>>

\* A marker line.  plotter_overlay.py 21-23 and 27-33, plotter.py 23-25 and
\* 28-33: the step is kept, then float("step=") raises ValueError.
\* script.py 87-96: a marker met while collecting ends the loop, another
\* sets collect_status.
StpMarker ==
    /\ StpHasLine
    /\ StpLine.kind = "marker"
    /\ IF fvar = "maxwell"
       THEN IF fst.collect
            THEN StpBreak /\ UNCHANGED fst
            ELSE /\ StpContinue
                 /\ fst' = [fst EXCEPT !.step_r = Some(StpLine.step),
                                       !.collect = (StepCfg = StpLine.step)]
       ELSE /\ fst' = [fst EXCEPT !.step_r = Some(StpLine.step)]
            /\ StpBreakIfRows
    /\ UNCHANGED <<fstream, fvar, notStp>>

\* plotter_overlay.py 24-26, plotter.py 26-27: a line under a marker of
\* another step is passed over.  script.py 104: a line met while not
\* collecting is passed over.
StpPassed ==
    IF fvar = "maxwell"
    THEN ~fst.collect
    ELSE fst.step_r.given /\ fst.step_r.v # StepCfg

\* plotter_overlay.py 30-31: the row is kept under the configured step.
\* plotter.py 31: the row is kept.  script.py 107-109: the row is kept.
collects_row(reader, st) ==
    IF reader = "overlay" THEN st.step_r = Some(StepCfg) ELSE TRUE

\* A row of numbers.
StpRow ==
    /\ StpHasLine
    /\ StpLine.kind = "row"
    /\ StpContinue
    /\ IF ~StpPassed /\ collects_row(fvar, fst)
       THEN fst' = [fst EXCEPT !.rows = Append(@, StpLine.v)]
       ELSE UNCHANGED fst
    /\ UNCHANGED <<fstream, fvar, notStp>>

\* A line of fewer numbers than a row has: plotter_overlay.py 29,
\* plotter.py 30, script.py 107.
StpShort ==
    /\ StpHasLine
    /\ StpLine.kind = "short"
    /\ StpContinue
    /\ UNCHANGED <<fstream, fvar, fst, notStp>>

\* A line of words: plotter_overlay.py 32-33, plotter.py 32-33 (ValueError
\* ends the loop once rows exist), script.py 110-111.
StpText ==
    /\ StpHasLine
    /\ StpLine.kind = "text"
    /\ IF fvar = "maxwell" \/ StpPassed THEN StpContinue ELSE StpBreakIfRows
    /\ UNCHANGED <<fstream, fvar, fst, notStp>>

\* The stream is exhausted.
StpEnd ==
    /\ fvar \in Readers
    /\ fpos = Len(fstream)
    /\ fpos' = Len(fstream) + 1
    /\ UNCHANGED <<fstream, fvar, fst, notStp>>

(***************************************************************************)
(* Specifications                                                          *)
(***************************************************************************)
InitSelect ==
    SelInit /\ DetIdle /\ BlkIdle /\ SrcIdle /\ HdrIdle /\ ClsIdle
    /\ TrcIdle /\ UntIdle /\ BoxIdle /\ GrpIdle /\ StpIdle
NextSelect == PickBlock
SpecSelect == InitSelect /\ [][NextSelect]_vars

InitDetect ==
    DetInit /\ SelIdle /\ BlkIdle /\ SrcIdle /\ HdrIdle /\ ClsIdle
    /\ TrcIdle /\ UntIdle /\ BoxIdle /\ GrpIdle /\ StpIdle
NextDetect == Detect
SpecDetect == InitDetect /\ [][NextDetect]_vars

InitBlocks ==
    BlkInit /\ SelIdle /\ DetIdle /\ SrcIdle /\ HdrIdle /\ ClsIdle
    /\ TrcIdle /\ UntIdle /\ BoxIdle /\ GrpIdle /\ StpIdle
NextBlocks ==
    \/ BlkMarker
    \/ BlkBadMarker
    \/ BlkSeeking
    \/ BlkLabel
    \/ BlkRow
    \/ BlkIgnore
    \/ BlkFinish
SpecBlocks == InitBlocks /\ [][NextBlocks]_vars

InitHeader ==
    HdrInit /\ SelIdle /\ DetIdle /\ BlkIdle /\ ClsIdle
    /\ TrcIdle /\ UntIdle /\ BoxIdle /\ GrpIdle /\ StpIdle
NextHeader ==
    \/ HdrReadCount
    \/ HdrReadNames
    \/ HdrReadInts
    \/ HdrWalkStep
    \/ HdrFinish
SpecHeader == InitHeader /\ [][NextHeader]_vars

InitClassic ==
    ClsInit /\ SelIdle /\ DetIdle /\ BlkIdle /\ HdrIdle
    /\ TrcIdle /\ UntIdle /\ BoxIdle /\ GrpIdle /\ StpIdle
NextClassic ==
    \/ ClsSkipStatic
    \/ ClsDynHeader
    \/ ClsPeekEOF
    \/ ClsReadFrame
    \/ ClsFrameEOF
    \/ ClsFrameBad
    \/ ClsConvert
SpecClassic == InitClassic /\ [][NextClassic]_vars

AllIdle ==
    SelIdle /\ DetIdle /\ BlkIdle /\ SrcIdle /\ HdrIdle /\ ClsIdle

InitTrace == TrcInit /\ AllIdle /\ UntIdle /\ BoxIdle /\ GrpIdle /\ StpIdle
NextTrace ==
    \/ TrcUnknown
    \/ TrcLookup
    \/ TrcScalar
    \/ TrcDefaultCell
    \/ TrcGivenCell
    \/ TrcRangeFail
    \/ TrcPlot
SpecTrace == InitTrace /\ [][NextTrace]_vars

InitUnits == UntInit /\ AllIdle /\ TrcIdle /\ BoxIdle /\ GrpIdle /\ StpIdle
NextUnits ==
    \/ UntConvert
    \/ UntFail
SpecUnits == InitUnits /\ [][NextUnits]_vars

InitBoxcar == BoxInit /\ AllIdle /\ TrcIdle /\ UntIdle /\ GrpIdle /\ StpIdle
NextBoxcar ==
    \/ BoxNoop
    \/ BoxConvolve
SpecBoxcar == InitBoxcar /\ [][NextBoxcar]_vars

QryIdle == TrcIdle /\ UntIdle /\ BoxIdle

InitGroups == GrpInit /\ AllIdle /\ QryIdle /\ StpIdle
NextGroups ==
    \/ GrpCountStep
    \/ GrpCountEnd
    \/ GrpOrderStep
    \/ GrpOrderEnd
    \/ GrpOffsetStep
    \/ GrpOffsetEnd
SpecGroups == InitGroups /\ [][NextGroups]_vars

InitStep == StpInit /\ AllIdle /\ QryIdle /\ GrpIdle
NextStep ==
    \/ StpBlank
    \/ StpMarker
    \/ StpRow
    \/ StpShort
    \/ StpText
    \/ StpEnd
SpecStep == InitStep /\ [][NextStep]_vars

Init ==
    \/ InitSelect \/ InitDetect \/ InitBlocks \/ InitHeader \/ InitClassic
    \/ InitTrace \/ InitUnits \/ InitBoxcar \/ InitGroups \/ InitStep

Next ==
    \/ NextSelect \/ NextDetect \/ NextBlocks \/ NextHeader \/ NextClassic
    \/ NextTrace \/ NextUnits \/ NextBoxcar \/ NextGroups \/ NextStep

Spec == Init /\ [][Next]_vars

(***************************************************************************)
(* Claims about the query layer (checked under SpecSelect)                 *)
(***************************************************************************)
\* C5: with count >= 1 frames, a given frame index is clamped into
\* [0, count-1] whether or not time_ps is given too (frame=-5 on ten frames
\* gives 0, frame=50 gives 9); with neither argument the result is count-1;
\* the result always lies in [0, count-1].
C5_SelectFramePolicy ==
    sel.done =>
        LET count == Len(times) IN
        /\ sel.i \in 0..(count - 1)
        /\ frame.given =>
              /\ frame.v \in 0..(count - 1) => sel.i = frame.v
              /\ frame.v < 0 => sel.i = 0
              /\ frame.v > count - 1 => sel.i = count - 1
        /\ (frame.given /\ count = 10 /\ frame.v = -5) => sel.i = 0
        /\ (frame.given /\ count = 10 /\ frame.v = 50) => sel.i = 9
        /\ (~frame.given /\ time_ps.given) =>
              \A j \in 1..count :
                  Abs(times[sel.i + 1] - time_ps.v * 100)
                      <= Abs(times[j] - time_ps.v * 100)
        /\ (~frame.given /\ ~time_ps.given) => sel.i = count - 1

\* A ten-frame series queried with frame=50 and a time: the frame wins.
C5_Witness ==
    /\ sel.done /\ Len(times) = 10
    /\ frame.given /\ frame.v = 50 /\ time_ps.given
    /\ sel.i = 9

\* C6: with no frame index and time_ps given, the result is the lowest
\* index whose |time[i] - time_ps*1e-12| is minimal; on a tie the lower
\* index wins.  For times [0, 1e-12, 5e-12, 9e-12], time_ps=4 gives 2 and
\* time_ps=0.4 gives 0.
C6_NearestTime ==
    (sel.done /\ ~frame.given /\ time_ps.given) =>
        LET target == time_ps.v * 100
            i == sel.i + 1
        IN  /\ i \in 1..Len(times)
            /\ \A j \in 1..Len(times) :
                   Abs(times[i] - target) <= Abs(times[j] - target)
            /\ \A j \in 1..(i - 1) :
                   Abs(times[j] - target) > Abs(times[i] - target)
            /\ (times = ExampleTimes /\ time_ps.v = 40) => sel.i = 2
            /\ (times = ExampleTimes /\ time_ps.v = 4) => sel.i = 0

\* Two frames equally near the target: the first is chosen.
C6_Witness ==
    /\ sel.done /\ ~frame.given /\ time_ps.given
    /\ \E j \in 1..Len(times) :
          /\ j > sel.i + 1
          /\ Abs(times[j] - time_ps.v * 100)
                = Abs(times[sel.i + 1] - time_ps.v * 100)

(***************************************************************************)
(* Claims about the format detector (checked under SpecDetect)             *)
(***************************************************************************)
\* Case-insensitive presence of "<word>=" in the sample, stated on the
\* sample itself.
HasMarkerCI(s, lo, up) ==
    \E k \in 1..(Len(s) - 1) : s[k] \in {lo, up} /\ s[k + 1] = "="

BothMarkersCI(s) ==
    HasMarkerCI(s, "step", "STEP") /\ HasMarkerCI(s, "time", "TIME")

\* C8 as written: detect returns Block if and only if the sample contains
\* both "step=" and "time=" (case-insensitively); every other sample
\* selects Classic.
C8_Original_BlockIffBothMarkers ==
    det.done => (det.block <=> BothMarkersCI(sample))

\* C8 amended: detect returns Block if and only if the sample contains both
\* "step=" and "time=", or contains "ascii_ouput" (all case-insensitively).
C8_BlockIffMarkersOrAsciiOuput ==
    det.done =>
        (det.block <=>
            \/ BothMarkersCI(sample)
            \/ \E k \in DOMAIN sample :
                  sample[k] \in {"ascii_ouput", "ASCII_OUPUT"})

\* An upper-case sample with both markers has been classified as Block.
C8_Witness ==
    /\ det.done /\ det.block
    /\ HasMarkerCI(sample, "STEP", "STEP")
    /\ HasMarkerCI(sample, "TIME", "TIME")
    /\ \A k \in DOMAIN sample : sample[k] \notin {"ascii_ouput", "ASCII_OUPUT"}

(***************************************************************************)
(* Claims about the block-ASCII reader (checked under SpecBlocks)          *)
(***************************************************************************)
\* What the claims say of an input, stated on the input itself.
IsMarkerAt(s, j) == s[j].k = "marker"

MarkerIdx(s) == SelectSeq([j \in 1..Len(s) |-> j], LAMBDA j : IsMarkerAt(s, j))

\* The first marker after line m, or one past the end of the stream.
NextMarkerAfter(s, m) ==
    IF \E j \in (m + 1)..Len(s) : IsMarkerAt(s, j)
    THEN CHOOSE j \in (m + 1)..Len(s) :
            IsMarkerAt(s, j) /\ \A h \in (m + 1)..(j - 1) : ~IsMarkerAt(s, h)
    ELSE Len(s) + 1

\* The valid rows strictly between lines a and b, in input order.
RowsBetween(s, a, b) ==
    LET inner == SelectSeq(SubSeq(s, a + 1, b - 1), LAMBDA ln : ln.k = "row")
    IN  [j \in DOMAIN inner |-> inner[j].v]

ExpectedBlocks(s) ==
    LET ms == MarkerIdx(s) IN
    [b \in DOMAIN ms |->
        [step |-> s[ms[b]].step,
         time_s |-> s[ms[b]].time,
         data |-> RowsBetween(s, ms[b], NextMarkerAfter(s, ms[b]))]]

\* No line matches the marker pattern with a time text that is no number.
NoBadMarker(s) == \A j \in DOMAIN s : s[j].k # "badmarker"

EveryMarkerHasRow(s) ==
    /\ MarkerIdx(s) # <<>>
    /\ \A b \in DOMAIN ExpectedBlocks(s) : ExpectedBlocks(s)[b].data # <<>>

\* C4: when every step/time marker line is followed by at least one valid
\* row, the result holds exactly one block per marker, in stream order, each
\* with its marker's step and time and exactly the valid rows between that
\* marker and the next one (or the end), in input order.
C4_BlockAccumulation ==
    (bout \notin {"running", "idle"} /\ NoBadMarker(stream)
        /\ EveryMarkerHasRow(stream)) =>
        /\ bout = "returned"
        /\ blocks = ExpectedBlocks(stream)
        /\ Len(blocks) = Len(MarkerIdx(stream))

\* The text of section 8.7 has been read: row counts [3, 2], markers
\* (1, 1e-12) and (2, 2e-12).
C4_Witness ==
    /\ bout = "returned"
    /\ stream = ExampleStream
    /\ Len(blocks) = 2
    /\ Len(blocks[1].data) = 3 /\ Len(blocks[2].data) = 2
    /\ blocks[1].step = 1 /\ blocks[1].time_s = 1000
    /\ blocks[2].step = 2 /\ blocks[2].time_s = 2000

\* C9: readBlocks fails with NoData exactly when zero blocks were produced,
\* in particular for an input with no marker line and for one whose markers
\* are followed by no valid row; it never returns an empty sequence.
C9_NoDataIffNoBlocks ==
    /\ bout = "returned" => blocks # <<>>
    /\ bout = "NoData" => blocks = <<>>
    /\ (bout \in {"returned", "NoData", "InvalidNumber"} /\ NoBadMarker(stream)) =>
          /\ bpos = Len(stream)
          /\ bout = "NoData" <=> blocks = <<>>
          /\ MarkerIdx(stream) = <<>> => bout = "NoData"
          /\ (\A b \in DOMAIN ExpectedBlocks(stream) :
                 ExpectedBlocks(stream)[b].data = <<>>) => bout = "NoData"

\* A stream with a marker and lines after it, none a valid row, has failed
\* with NoData.
C9_Witness ==
    /\ bout = "NoData"
    /\ MarkerIdx(stream) # <<>>
    /\ MarkerIdx(stream)[1] < Len(stream)

(***************************************************************************)
(* Claims about the header decoder (checked under SpecHeader)              *)
(***************************************************************************)
\* The count line holds a number.
CountLineOk(f) == Len(f) >= 1 /\ f[1] # <<>> /\ IsNum(f[1][1])
DeclaredCount(f) == NumOf(f[1][1])

\* The line on which the n-th name stands (1 when n <= 0).
NamesEndLine(f, n) ==
    CHOOSE q \in 1..Len(f) :
        /\ TokCount(f, 2, q) >= n
        /\ \A h \in 1..(q - 1) : TokCount(f, 2, h) < n

\* The scalar slots of a sequence of (name, code) pairs.
RECURSIVE SlotSum(_)
SlotSum(ls) ==
    IF ls = <<>> THEN 0
    ELSE (IF ls[1] = 0 THEN 1 ELSE ls[1]) + SlotSum(Tail(ls))

\* C2 as written: for every section header from which the decoder returns
\* a directory, the sum of the descriptor counts (totalScalarSlots) equals
\* the declared element count n (n >= 0: the spec's decoder returns no
\* directory for a negative count).
C2_Original_SumEqualsDeclaredCount ==
    (hres.out = "returned" /\ hdr.n >= 0) => hres.total_values = hdr.n

\* C2 amended: when the walk compresses the whole header without falling
\* back, the sum of the descriptor counts equals the number of (name, code)
\* pairs read, which is the declared count n for n >= 0 (and 0 for a
\* negative n); after a fallback the directory is the n raw pairs and the
\* sum is that of their codes (0 counting 1).
C2_SumEqualsCountWithoutFallback ==
    hres.out = "returned" =>
        /\ Len(hdr.names) = Max(hdr.n, 0)
        /\ walk.ok => hres.total_values = Len(hdr.names)
        /\ ~walk.ok =>
              /\ Len(hres.items) = hdr.n
              /\ hres.total_values = SlotSum(hdr.lens)

\* A directory with an array run has been returned without fallback.
C2_Witness ==
    /\ hres.out = "returned"
    /\ walk.ok
    /\ hdr.n >= 2
    /\ \E k \in DOMAIN hres.items : hres.items[k].L = 2

\* C7: if the stream ends before n names, or before n length codes, have
\* been collected, the decoder fails with EOFError; a directory is returned
\* only from a header that holds its n names and n codes.
C7_MalformedHeaderFailsClosed ==
    (hpc = "done" /\ CountLineOk(file)) =>
        LET n == DeclaredCount(file) IN
        /\ TokCount(file, 2, Len(file)) < n => hres.out = "EOFError"
        /\ (/\ TokCount(file, 2, Len(file)) >= n
            /\ n > 0
            /\ TokCount(file, NamesEndLine(file, n) + 1, Len(file)) < n) =>
                hres.out = "EOFError"
        /\ hres.out = "returned" =>
              /\ Len(hdr.names) = Max(n, 0)
              /\ Len(hdr.lens) = Max(n, 0)
              /\ TokCount(file, 2, Len(file)) >= 2 * n
              /\ pos <= Len(file)

\* A header cut inside its name list has been refused.
C7_Witness ==
    /\ hpc = "done"
    /\ hres.out = "EOFError"
    /\ CountLineOk(file)
    /\ Len(file) >= 2
    /\ TokCount(file, 2, Len(file)) < DeclaredCount(file)

(***************************************************************************)
(* Claims about the classic reader (checked under SpecClassic)             *)
(***************************************************************************)
\* The number of descriptors of a directory that carry a name.
DescCount(its, nm) == Cardinality({k \in DOMAIN its : its[k].name = nm})

\* Whether a record of n values starting after line p is complete, and the
\* line it ends on.
RecComplete(f, p, n) == \E q \in (p + 1)..Len(f) : TokCount(f, p + 1, q) >= n
RecEnd(f, p, n) ==
    CHOOSE q \in (p + 1)..Len(f) :
        /\ TokCount(f, p + 1, q) >= n
        /\ \A h \in (p + 1)..(q - 1) : TokCount(f, p + 1, h) < n

\* The complete records of n values that stand after line p of the input.
RECURSIVE CompleteRecords(_, _, _)
CompleteRecords(f, p, n) ==
    IF p >= Len(f) \/ ~RecComplete(f, p, n) THEN 0
    ELSE 1 + CompleteRecords(f, RecEnd(f, p, n), n)

\* C1 as written: when the dynamic header is followed by exactly F complete
\* records (every value of the remaining lines belongs to one of them) and
\* then the end of the stream, a mapping is returned and every variable in
\* it has exactly F entries along its frame axis, whatever the directory,
\* one that repeats a name included.
C1_FrameCountConsistency ==
    (/\ cpc = "done"
     /\ loop.how = "boundary"
     /\ dyn.rec_n > 0
     /\ TokCount(file, loop.start + 1, Len(file)) =
            dyn.rec_n * CompleteRecords(file, loop.start, dyn.rec_n)) =>
        /\ cres.out = "returned"
        /\ \A nm \in DOMAIN cres.shape :
              cres.shape[nm].frames =
                  CompleteRecords(file, loop.start, dyn.rec_n)

C10_ZeroFramesIsNoData ==
    (/\ cpc = "done"
     /\ dyn.items # <<>>
     /\ loop.start = Len(file)) => cres.out = "NoData"

(***************************************************************************)
(* Claims about the query helpers (SpecTrace, SpecUnits, SpecBoxcar)       *)
(***************************************************************************)
\* The time sequence of cell c (0-based) of a 2-D series.
CellTrace(rows, c) == [f \in DOMAIN rows |-> rows[f][c + 1]]

\* C11: for an array variable with N cells, a trace without a cell index
\* plots cell floor(N/2); a cell index outside 0..N-1 (such as -1 and N)
\* fails with IndexError and plots nothing; a cell index in 0..N-1 plots
\* the time sequence of exactly that cell.
C11_TraceBounds ==
    (tpc = "done" /\ tdyn.known /\ tdyn.arr.ndim = 2) =>
        LET n == tdyn.arr.ncell
            rows == tdyn.arr.rows
        IN  /\ ~tcell.given =>
                  /\ tres.out = "plotted"
                  /\ tres.y = CellTrace(rows, n \div 2)
            /\ (tcell.given /\ (tcell.v < 0 \/ tcell.v > n - 1)) =>
                  /\ tres.out = "IndexError"
                  /\ tres.y = <<>>
            /\ (tcell.given /\ 0 <= tcell.v /\ tcell.v <= n - 1) =>
                  /\ tres.out = "plotted"
                  /\ tres.y = CellTrace(rows, tcell.v)

\* A trace asked for cell -1 of a three-cell variable has been refused.
C11_Witness ==
    /\ tpc = "done"
    /\ tdyn.known /\ tdyn.arr.ndim = 2 /\ tdyn.arr.ncell = 3
    /\ tcell = Some(-1)
    /\ tres.out = "IndexError"

\* The products of a column with a factor.
Scaled(xs, fac) == [k \in DOMAIN xs |-> xs[k] * fac]

\* The unit strings the specification lists as supported.
ListedUnits == {"cm", "m", "um", "µm", "micron"}

\* C12 as written: cm multiplies by 1e4, m by 1e6, the micrometer
\* spellings by 1, and every unit string outside the listed set fails and
\* yields no values.
C12_Original_OnlyListedUnits ==
    ures.out \notin {"idle", "running"} =>
        LET u == IF xunit.given THEN xunit.v ELSE "" IN
        /\ u = "cm" => ures.out = "converted" /\ ures.vals = Scaled(xvals, 10000)
        /\ u = "m" => ures.out = "converted" /\ ures.vals = Scaled(xvals, 1000000)
        /\ u \in {"um", "µm", "micron"} =>
              ures.out = "converted" /\ ures.vals = Scaled(xvals, 1)
        /\ u \notin ListedUnits => ures.out = "SystemExit" /\ ures.vals = <<>>

\* The spellings the code accepts, in any letter case.
CmSpellings == {"cm", "CM", "Cm"}
MeterSpellings == {"m", "M", "meter", "Meter", "meters", "METERS"}
MicronSpellings == {"um", "UM", "µm", "micron", "Micron", "microns", "MICRONS"}

\* C12 amended: whatever the letter case, cm multiplies by 1e4, m / meter /
\* meters by 1e6, um / µm / micron / microns by 1; every other unit string,
\* the empty and the absent one included, fails and yields no values.
C12_UnitFactorAnyCase ==
    ures.out \notin {"idle", "running"} =>
        LET u == IF xunit.given THEN xunit.v ELSE "" IN
        /\ u \in CmSpellings =>
              ures.out = "converted" /\ ures.vals = Scaled(xvals, 10000)
        /\ u \in MeterSpellings =>
              ures.out = "converted" /\ ures.vals = Scaled(xvals, 1000000)
        /\ u \in MicronSpellings =>
              ures.out = "converted" /\ ures.vals = Scaled(xvals, 1)
        /\ u \notin CmSpellings \cup MeterSpellings \cup MicronSpellings =>
              ures.out = "SystemExit" /\ ures.vals = <<>>

\* A column given in METERS has been converted.
C12_Witness ==
    /\ ures.out = "converted"
    /\ xunit = [given |-> TRUE, v |-> "METERS"]
    /\ xvals = <<1, 2>>
    /\ ures.vals = <<1000000, 2000000>>

\* C13 as written: for k <= 1 or no k the values are returned unchanged;
\* for k > 1, also when k exceeds the number of cells, the output is as
\* long as the input.
C13_BoxcarSameLength ==
    bres.out = "returned" =>
        /\ (~bk.given \/ bk.v <= 1) => bres.num = by /\ bres.den = 1
        /\ (bk.given /\ bk.v > 1) => Len(bres.num) = Len(by)

(***************************************************************************)
(* Claims about descriptors and records (SpecClassic, SpecHeader)          *)
(***************************************************************************)
\* The count of a descriptor: 1 for a scalar slot, the run length else.
ItemCount(it) == IF it.L = 0 THEN 1 ELSE it.L

C15_CountValidation ==
    (/\ hpc = "done"
     /\ Len(file) >= 1
     /\ \/ file[1] = <<>>
        \/ ~IsNum(file[1][1])
        \/ NumOf(file[1][1]) < 0) =>
        hres.out \in {"IndexError", "ValueError"}

\* The tokens of lines a..b of f, in order.
RECURSIVE Tokens(_, _, _)
Tokens(f, a, b) == IF a > b THEN <<>> ELSE f[a] \o Tokens(f, a + 1, b)

\* The line after which record k (k = 0, 1, ...) of n values starts, when
\* every record starts on a fresh line.
RECURSIVE RecStartLine(_, _, _, _)
RecStartLine(f, start, n, k) ==
    IF k = 0 THEN start ELSE RecEnd(f, RecStartLine(f, start, n, k - 1), n)

\* C16 as written: with record length S the k-th decoded frame consists of
\* tokens k*S .. (k+1)*S-1 of the token stream that follows the dynamic
\* header, whatever the line wrapping.
C16_Original_ContinuousTokenStream ==
    (cpc = "loop" /\ loop.frames >= 1 /\ dyn.rec_n > 0) =>
        StrsOf(loop.vals) =
            SubSeq(Tokens(file, loop.start + 1, Len(file)),
                   (loop.frames - 1) * dyn.rec_n + 1, loop.frames * dyn.rec_n)

\* C16 amended: every record starts on the line after the one on which the
\* previous record ended, takes the first S tokens of the lines up to the
\* first line that completes it, and the tokens left on that line are
\* dropped; when no token was dropped so far, the k-th frame consists of
\* tokens k*S .. (k+1)*S-1 of the stream.
C16_RecordsStartOnLines ==
    (cpc = "loop" /\ loop.frames >= 1 /\ dyn.rec_n > 0) =>
        LET S == dyn.rec_n
            k == loop.frames - 1
        IN  /\ loop.from = RecStartLine(file, loop.start, S, k)
            /\ loop.to = RecEnd(file, loop.from, S)
            /\ pos = loop.to
            /\ StrsOf(loop.vals) = Take(Tokens(file, loop.from + 1, loop.to), S)
            /\ TokCount(file, loop.start + 1, loop.to) = loop.frames * S =>
                  StrsOf(loop.vals) =
                      SubSeq(Tokens(file, loop.start + 1, Len(file)),
                             k * S + 1, (k + 1) * S)

\* A second record has been read after the first ended inside a line.
C16_Witness ==
    /\ cpc = "loop"
    /\ loop.frames = 2
    /\ dyn.rec_n > 0
    /\ TokCount(file, loop.start + 1, RecEnd(file, loop.start, dyn.rec_n)) > dyn.rec_n

\* One descriptor per (name, code) pair from position i (0-based) on.
PairsFrom(ns, ls, i) == [k \in 1..(Len(ns) - i) |-> Item(ns[i + k], ls[i + k])]

\* C17 as written: when the walk finds the run at position i inconsistent,
\* the decoder does not fail; it keeps the descriptors emitted for the
\* positions before i and emits one descriptor per remaining pair from
\* position i on.
C17_Original_FallbackKeepsPrefix ==
    (hpc = "done" /\ walk.st = "end" /\ ~walk.ok /\ walk.i >= 0) =>
        /\ hres.out = "returned"
        /\ hres.items = walk.items \o PairsFrom(hdr.names, hdr.lens, walk.i)

\* C17 amended: when the walk finds a run inconsistent, the decoder does
\* not fail; it drops the descriptors emitted so far and emits one
\* descriptor per (name, code) pair of the whole header, unchanged and in
\* order; otherwise it emits the descriptors of the walk.
C17_FallbackEmitsAllPairs ==
    (hpc = "done" /\ walk.st = "end") =>
        /\ hres.out = "returned"
        /\ ~walk.ok =>
              /\ walk.i < hdr.n
              /\ Len(hres.items) = hdr.n
              /\ hres.items = PairsFrom(hdr.names, hdr.lens, 0)
        /\ walk.ok => hres.items = walk.items

\* A header whose first run was compressed before a later run failed has
\* been returned pair by pair.
C17_Witness ==
    /\ hpc = "done"
    /\ hres.out = "returned"
    /\ ~walk.ok
    /\ walk.i >= 2
    /\ \E k \in DOMAIN walk.items : walk.items[k].L >= 2
    /\ Len(hres.items) = hdr.n

(***************************************************************************)
(* Claims about the steps of the block reader (SpecBlocks)                 *)
(***************************************************************************)
\* The reader takes a line that matches the step/time pattern.
MarkerStep ==
    /\ bout = "running"
    /\ bpos < Len(stream)
    /\ stream[bpos + 1].k = "marker"
    /\ bpos' = bpos + 1

\* The block in progress as it is stored in the output.
Flushed(c) == [step |-> c.step, time_s |-> c.time_s, data |-> c.rows]

\* C18 as written: every marker line seen while a block is in progress
\* adds that block to the output, empty or not, and starts a new block
\* with the new step and time.
C18_Original_EveryMarkerFlushes ==
    [][(MarkerStep /\ cur.open) =>
          /\ blocks' = Append(blocks, Flushed(cur))
          /\ cur' = [open |-> TRUE, step |-> stream[bpos + 1].step,
                     time_s |-> stream[bpos + 1].time, rows |-> <<>>]]_vars

\* C18 amended: every marker line starts a new block with the new step and
\* time; the block in progress is added to the output when it holds at
\* least one row and is dropped when it holds none.
C18_MarkerFlushesNonEmpty ==
    [][MarkerStep =>
          /\ blocks' = IF cur.open /\ cur.rows # <<>>
                       THEN Append(blocks, Flushed(cur))
                       ELSE blocks
          /\ cur' = [open |-> TRUE, step |-> stream[bpos + 1].step,
                     time_s |-> stream[bpos + 1].time, rows |-> <<>>]]_vars

\* A second marker has just moved the rows of the first block to the
\* output.
C18_Witness ==
    /\ bout = "running"
    /\ bpos >= 3
    /\ stream[bpos].k = "marker"
    /\ cur.open /\ cur.rows = <<>> /\ cur.step = stream[bpos].step
    /\ Len(blocks) = 1
    /\ blocks[1].data # <<>>

\* The rows of the flushed blocks, in order.
RECURSIVE AllRows(_)
AllRows(bs) == IF bs = <<>> THEN <<>> ELSE bs[1].data \o AllRows(Tail(bs))

\* The lines read so far.
SeenLines == SubSeq(stream, 1, bpos)
MarkerSeen == \E j \in 1..bpos : stream[j].k \in {"marker", "badmarker"}

\* While the reader runs, the rows it holds are the valid rows read after
\* the first marker, in input order; before the first marker it holds
\* nothing.
RowsAdmitted ==
    bout = "running" =>
        IF ~MarkerSeen
        THEN ~cur.open /\ blocks = <<>> /\ cur.rows = <<>>
        ELSE AllRows(blocks) \o cur.rows =
                 RowsBetween(SeenLines, NextMarkerAfter(SeenLines, 0), bpos + 1)

\* The reader takes a line that is to be ignored: a label, blank, short or
\* non-numeric line, or any line without the pattern before the first
\* marker.
IgnoredStep ==
    /\ bout = "running"
    /\ bpos < Len(stream)
    /\ bpos' = bpos + 1
    /\ \/ stream[bpos + 1].k \in {"label", "blank", "short", "nonnum"}
       \/ ~MarkerSeen /\ stream[bpos + 1].k \notin {"marker", "badmarker"}

C20_LoopConsumesLines ==
    [][(cpc = "loop" /\ loop'.frames = loop.frames + 1) => pos' > pos]_vars

(***************************************************************************)
(* Claims about the walk of the header decoder (SpecHeader)                *)
(***************************************************************************)
\* The walk emits a descriptor and goes on.
WalkEmits ==
    /\ hpc = "walk"
    /\ walk.st = "loop"
    /\ walk'.st = "loop"
    /\ Len(walk'.items) = Len(walk.items) + 1

\* C21 as written: for all names and length codes of a header of n slots,
\* negative codes and codes larger than n included, each step of the walk
\* moves the position i forward by at least 1 and keeps 0 <= i <= n, so
\* that at most n descriptors are emitted.
C21_WalkProgress ==
    [][WalkEmits =>
          /\ walk'.i >= walk.i + 1
          /\ 0 <= walk'.i /\ walk'.i <= hdr.n
          /\ Len(walk'.items) <= hdr.n]_vars

(***************************************************************************)
(* Claims about the grouping of script.py (checked under SpecGroups)       *)
(***************************************************************************)
\* The record positions (0-based) whose stripped header name is nm.
PositionsOf(nm) == {p \in 0..(Len(gnames) - 1) : Strip(gnames[p + 1]) = nm}

\* The ranges, taken in first-occurrence order, follow one another from 0
\* to n_d.
RangesPartition ==
    LET ord == grp.order
        n == Len(ord)
    IN  /\ DOMAIN grp.offsets = {ord[k] : k \in 1..n}
        /\ n = 0 => Len(gnames) = 0
        /\ n > 0 => /\ grp.offsets[ord[1]].a = 0
                    /\ grp.offsets[ord[n]].b = Len(gnames)
        /\ \A k \in 1..n : grp.offsets[ord[k]].a < grp.offsets[ord[k]].b
        /\ \A k \in 1..(n - 1) :
              grp.offsets[ord[k]].b = grp.offsets[ord[k + 1]].a

\* C22: the offset ranges [a, b) of read_fort10, taken in first-occurrence
\* order, partition [0, n_d) without gap or overlap, and the range of every
\* variable holds exactly the record positions whose stripped header name
\* is that variable, also when the occurrences of a name are not
\* contiguous.
C22_SlicesMatchNames ==
    gpc = "done" =>
        /\ RangesPartition
        /\ \A nm \in DOMAIN grp.offsets :
              PositionsOf(nm) = grp.offsets[nm].a .. (grp.offsets[nm].b - 1)

(***************************************************************************)
(* Claims about the step-filtered readers (checked under SpecStep)         *)
(***************************************************************************)
\* A row is collected from the current line.
RowCollected == Len(fst'.rows) = Len(fst.rows) + 1

\* Line k (1-based) lies after a marker of the configured step with no
\* other marker between the two.
UnderConfiguredMarker(k) ==
    \E m \in 1..(k - 1) :
        /\ fstream[m].kind = "marker"
        /\ fstream[m].step = StepCfg
        /\ \A j \in (m + 1)..(k - 1) : fstream[j].kind # "marker"

\* C24: with a step configured, every row collected by one of the three
\* step-filtered readers lies after a marker line of the configured step
\* and before the next marker line; rows before the first marker or in a
\* block of another step are never collected.
C24_RowsOfOneBlock ==
    [][RowCollected => UnderConfiguredMarker(fpos + 1)]_vars

(***************************************************************************)
(* Claims about the line source (checked under SpecClassic)                *)
(***************************************************************************)
\* C25: on every exit path of a read (normal return, clean end of stream,
\* EOF failure in a header or record, number-parse failure) the file handle
\* opened for the read is closed before control returns to the caller; no
\* final state leaves a handle open.
C25_HandleReleased ==
    /\ cpc \in {"convert", "done"} => cres.fh = "closed"
    /\ cres.fh = "open" => cpc \in {"dyn", "loop"}

\* A read that fails while the file is open, and has closed it.
C25_Witness ==
    /\ cpc = "done"
    /\ cres.out \in {"EOFError", "ValueError"}
    /\ loop.start > 0
    /\ cres.fh = "closed"

(***************************************************************************)
(* Claims about the detector and the block reader (checked under           *)
(* SpecDetect)                                                             *)
(***************************************************************************)
\* C23: whenever the sampled head holds a line that the block reader's
\* header pattern (step, optional spaces, =, integer, spaces, time,
\* optional spaces, =, number) accepts as a marker, the detector selects
\* the Block reader; spacing around "=" never routes a file the block
\* reader can decode to the Classic reader.
C23_DetectorAgreesWithReader ==
    (det.done /\ block_start_search(sample)) => det.block

====
